---- MODULE Spec2Model ----
(***************************************************************************)
(* Model of the Luma Events admin API (the Express server module): the    *)
(* chain requireAuth -> requireAdmin -> route handler, over a               *)
(* Firestore document store and an append-only auditLogs collection.       *)
(*                                                                         *)
(* One action per route.  An action is the whole request: both             *)
(* middlewares, the handler, every store call it makes and the response.   *)
(* A store call can fault; which call faults (at most one per request,     *)
(* since every fault ends the request) is chosen by the environment.       *)
(*                                                                         *)
(* The status routes are also modelled step by step, one action per        *)
(* awaited store call, so that requests can interleave (SpecSteps).        *)
(***************************************************************************)
EXTENDS Integers, Sequences, FiniteSets, TLC

VARIABLES
    db,         \* Firestore documents: path -> object (DOMAIN = existing docs)
    auditLogs,  \* the auditLogs collection, in order of insertion
    now,        \* server clock, one tick per request
    req,        \* the last request: [route, header, body]
    res,        \* its response: [status, body]
    chain,      \* the middleware / handler functions that request entered
    calls,      \* the store calls that request made, in order
    fault,      \* the store call that faulted in that request, or "none"
    inflight    \* the requests being served step by step: slot -> request

vars == <<db, auditLogs, now, req, res, chain, calls, fault, inflight>>

----------------------------------------------------------------------------
(* Bounds *)

MaxRequests == 1          \* requests per behaviour, any route (Spec)
MaxSettingsRequests == 2  \* requests per behaviour, settings routes (SpecSettings)
MaxStatusRequests == 2    \* requests per behaviour, status routes (SpecStatus)
MaxOrders == 3            \* order documents in the overview scenarios (SpecOverview)
MaxStepRequests == 2      \* requests per behaviour, served step by step (SpecSteps)

----------------------------------------------------------------------------
(* JavaScript values.  A value is a record [t, v]; t is the JS type.       *)

Bool(b) == [t |-> "bool", v |-> b]
Num(n) == [t |-> "num", v |-> n]
Str(s) == [t |-> "str", v |-> s]
Null == [t |-> "null", v |-> 0]
Undef == [t |-> "undef", v |-> 0]
NaN == [t |-> "nan", v |-> 0]

\* new Date(n).toISOString(): the timestamp string of clock reading n
toISOString(n) == [t |-> "iso", v |-> n]

\* ToBoolean: the falsy values are false, 0, NaN, "", null and undefined.
Truthy(x) ==
    CASE x.t = "bool" -> x.v
      [] x.t = "num" -> x.v # 0
      [] x.t = "str" -> x.v # ""
      [] OTHER -> x.t \notin {"null", "undef", "nan"}

\* a === b
StrictEq(a, b) == a.t = b.t /\ a.v = b.v

\* new Set(values).has(x)
Has(values, x) == \E y \in values : StrictEq(x, y)

\* a || b
OrElse(a, b) == IF Truthy(a) THEN a ELSE b

\* Objects are functions from keys to JS values; a missing key reads as
\* undefined.
EmptyObj == [k \in {} |-> Undef]

Get(obj, k) == IF k \in DOMAIN obj THEN obj[k] ELSE Undef

\* Object with the keys of both, p winning: Firestore's set(p, {merge: true})
\* on top-level fields, and update(p).
Merge(old, p) ==
    [k \in (DOMAIN old) \cup (DOMAIN p) |-> IF k \in DOMAIN p THEN p[k] ELSE old[k]]

\* Decimal strings that occur as order totals, with their values.
NumericStrings == [s \in {"25"} |-> 25]

\* Number(x)
ToNumber(x) ==
    CASE x.t = "num" -> x
      [] x.t = "bool" -> IF x.v THEN Num(1) ELSE Num(0)
      [] x.t = "null" -> Num(0)
      [] x.t = "str" ->
            IF x.v = "" THEN Num(0)
            ELSE IF x.v \in DOMAIN NumericStrings THEN Num(NumericStrings[x.v])
            ELSE NaN
      [] OTHER -> NaN

Abs(n) == IF n < 0 THEN -n ELSE n

----------------------------------------------------------------------------
(* Authorization header and identity tokens.  A header is a sequence of    *)
(* characters; the absent header reads as "".                              *)

BearerPrefix == <<"B", "e", "a", "r", "e", "r", " ">>

NoToken == <<"null">>

startsWith(s, p) == Len(s) >= Len(p) /\ SubSeq(s, 1, Len(p)) = p

slice(s, n) == SubSeq(s, n + 1, Len(s))

\* (variant) the scheme is not compared: anything after the seventh
\* character is taken as the token
getAuthTokenAnyScheme(header) ==
    IF Len(header) > Len(BearerPrefix)
    THEN slice(header, Len(BearerPrefix))
    ELSE NoToken

getAuthToken(header) ==
    IF startsWith(header, BearerPrefix)
    THEN slice(header, Len(BearerPrefix))
    ELSE NoToken

\* The identity provider: the ID tokens it has issued and the uid of each.
\* Any other token fails verification.
IssuedTokens == (<<"a">> :> "admin-1") @@ (<<"f">> :> "flag-1")
                @@ (<<"e">> :> "editor-1") @@ (<<"u">> :> "user-2")

verifyIdToken(token) ==
    IF token \in DOMAIN IssuedTokens
    THEN [ok |-> TRUE, uid |-> IssuedTokens[token]]
    ELSE [ok |-> FALSE, uid |-> ""]

Headers ==
    { <<>>,                                       \* no Authorization header
      <<"b", "e", "a", "r", "e", "r", " ", "a">>, \* wrong scheme spelling
      BearerPrefix,                               \* "Bearer " and no token
      BearerPrefix \o <<"x">>,                    \* token never issued
      BearerPrefix \o <<"a">>,
      BearerPrefix \o <<"f">>,
      BearerPrefix \o <<"e">>,
      BearerPrefix \o <<"u">> }

----------------------------------------------------------------------------
(* Responses *)

Json(status, body) == [status |-> status, body |-> body]

Error(status, msg) == Json(status, [error |-> Str(msg)])

Ok == Json(200, [ok |-> Bool(TRUE)])

\* requireAuth: the outcome of the authentication middleware.
requireAuth(header) ==
    LET token == getAuthToken(header)
    IN  IF token = NoToken \/ token = <<>>
        THEN [next |-> FALSE, uid |-> "", res |-> Error(401, "Missing Authorization token")]
        ELSE LET decoded == verifyIdToken(token)
             IN  IF decoded.ok
                 THEN [next |-> TRUE, uid |-> decoded.uid, res |-> Ok]
                 ELSE [next |-> FALSE, uid |-> "", res |-> Error(401, "Invalid or expired token")]

----------------------------------------------------------------------------
(* The document store *)

SettingsPath == <<"systemSettings", "production">>
AdminPath(uid) == <<"lumaAdmins", uid>>
EventPath(eventId) == <<"events", eventId>>
VendorPath(eventId, vendorId) == <<"events", eventId, "vendors", vendorId>>
OrderPath(eventId, orderId) == <<"events", eventId, "orders", orderId>>
BrandPath(brandId) == <<"brands", brandId>>

\* The vendor document a vendor-status body names.
RequestedVendorOf(body) == VendorPath(body["eventId"].v, body["vendorId"].v)

Exists(d, p) == p \in DOMAIN d
Data(d, p) == IF p \in DOMAIN d THEN d[p] ELSE EmptyObj

\* (variant) a snapshot that reports every document as existing
SnapshotAlwaysExists(d, p) == [exists |-> TRUE, data |-> Data(d, p)]

\* ref.get(): the DocumentSnapshot of path p
Snapshot(d, p) == [exists |-> Exists(d, p), data |-> Data(d, p)]

\* ref.set(payload, {merge: true}): creates the document when absent.
SetMerge(d, p, payload) ==
    [q \in (DOMAIN d) \cup {p} |-> IF q = p THEN Merge(Data(d, p), payload) ELSE d[q]]

\* (variant) the fields are written to every document of p's collection
UpdateSiblings(d, p, fields) ==
    [q \in DOMAIN d |->
        IF Len(q) = Len(p) /\ SubSeq(q, 1, Len(q) - 1) = SubSeq(p, 1, Len(p) - 1)
        THEN Merge(d[q], fields)
        ELSE d[q]]

\* ref.update(fields) on an existing document (it fails on an absent one).
Update(d, p, fields) == [d EXCEPT ![p] = Merge(d[p], fields)]

\* collection(name): the documents directly under the root collection.
Collection(d, name) == {p \in DOMAIN d : Len(p) = 2 /\ p[1] = name}

\* collectionGroup(name): the documents of every collection with that id.
CollectionGroup(d, name) == {p \in DOMAIN d : p[Len(p) - 1] = name}

\* (variant) any caller with an admin record is let through, whatever the
\* record holds
requireAdminAnyRecord(d, uid, lookupFaults) ==
    IF uid = ""
    THEN [next |-> FALSE, res |-> Error(401, "Unauthorized")]
    ELSE IF lookupFaults
    THEN [next |-> FALSE, res |-> Error(500, "Failed to authorize admin")]
    ELSE IF ~Snapshot(d, AdminPath(uid)).exists
    THEN [next |-> FALSE, res |-> Error(403, "Forbidden")]
    ELSE [next |-> TRUE, res |-> Ok]

\* requireAdmin: the outcome of the authorization middleware.
requireAdmin(d, uid, lookupFaults) ==
    IF uid = ""
    THEN [next |-> FALSE, res |-> Error(401, "Unauthorized")]
    ELSE IF lookupFaults
    THEN [next |-> FALSE, res |-> Error(500, "Failed to authorize admin")]
    ELSE LET adminSnap == Snapshot(d, AdminPath(uid))
             adminData == IF adminSnap.exists THEN adminSnap.data ELSE EmptyObj
             isSuperAdmin == StrictEq(Get(adminData, "role"), Str("super_admin"))
                             \/ Truthy(Get(adminData, "isSuperAdmin"))
         IN  IF ~isSuperAdmin
             THEN [next |-> FALSE, res |-> Error(403, "Forbidden")]
             ELSE [next |-> TRUE, res |-> Ok]

----------------------------------------------------------------------------
(* Audit log *)

\* Firestore rejects a document holding an undefined field value (the
\* client is created without ignoreUndefinedProperties): add() throws.
ValidData(obj) == \A k \in DOMAIN obj : obj[k].t # "undef"

\* (variant) no try/catch around add(): a failing add() is thrown to the
\* caller
logAdminActionThrows(logs, action, actorUid, metadata, t, addFaults) ==
    IF addFaults \/ ~ValidData(metadata)
    THEN [logs |-> logs, threw |-> TRUE]
    ELSE [logs |-> Append(logs, [action |-> action, actorUid |-> actorUid,
                                 metadata |-> metadata, createdAt |-> t]),
          threw |-> FALSE]

\* logAdminAction: append one entry.  A failing add() is caught and logged:
\* the function never throws to its caller.
logAdminAction(logs, action, actorUid, metadata, t, addFaults) ==
    IF addFaults \/ ~ValidData(metadata)
    THEN [logs |-> logs, threw |-> FALSE]
    ELSE [logs |-> Append(logs, [action |-> action, actorUid |-> actorUid,
                                 metadata |-> metadata, createdAt |-> t]),
          threw |-> FALSE]

\* The end of a mutating handler: await logAdminAction(...) inside the
\* handler's try block, then the success response.
Audited(d, logs, audit, failed, c) ==
    IF audit.threw
    THEN [db |-> d, logs |-> audit.logs, res |-> failed, calls |-> c]
    ELSE [db |-> d, logs |-> audit.logs, res |-> Ok, calls |-> c]

----------------------------------------------------------------------------
(* Route handlers.  f names the store call that faults ("none": no call    *)
(* does).  The result is the store and audit log after the handler, the    *)
(* response, and the store calls made.                                     *)

Result(d, logs, r, c) == [db |-> d, logs |-> logs, res |-> r, calls |-> c]

\* GET /api/system-settings
getSystemSettings(d, logs, f) ==
    IF f = "settingsGet"
    THEN Result(d, logs, Error(500, "Failed to fetch system settings"), <<"settingsGet">>)
    ELSE Result(d, logs,
                LET snap == Snapshot(d, SettingsPath)
                IN  Json(200, IF snap.exists THEN snap.data ELSE EmptyObj),
                <<"settingsGet">>)

\* (variant) the request body is spread into the payload before the
\* normalized fields
SettingsPayloadSpread(body, t) ==
    Merge(body,
          [maintenanceMode |-> Bool(Truthy(Get(body, "maintenanceMode"))),
           maintenanceMessage |-> OrElse(Get(body, "maintenanceMessage"), Str("")),
           ownerSignupDisabled |-> Bool(Truthy(Get(body, "ownerSignupDisabled"))),
           brandSignupDisabled |-> Bool(Truthy(Get(body, "brandSignupDisabled"))),
           vendorSignupDisabled |-> Bool(Truthy(Get(body, "vendorSignupDisabled"))),
           posLoginDisabled |-> Bool(Truthy(Get(body, "posLoginDisabled"))),
           updatedAt |-> toISOString(t)])

\* The normalized settings document of a request body.
SettingsPayload(body, t) ==
    [maintenanceMode |-> Bool(Truthy(Get(body, "maintenanceMode"))),
     maintenanceMessage |-> OrElse(Get(body, "maintenanceMessage"), Str("")),
     ownerSignupDisabled |-> Bool(Truthy(Get(body, "ownerSignupDisabled"))),
     brandSignupDisabled |-> Bool(Truthy(Get(body, "brandSignupDisabled"))),
     vendorSignupDisabled |-> Bool(Truthy(Get(body, "vendorSignupDisabled"))),
     posLoginDisabled |-> Bool(Truthy(Get(body, "posLoginDisabled"))),
     updatedAt |-> toISOString(t)]

\* (variant) a missing message defaults to the time of the write
putSystemSettingsStampedMessage(d, logs, uid, body, t, f) ==
    LET payload == [SettingsPayload(body, t) EXCEPT
                       !["maintenanceMessage"] =
                           OrElse(Get(body, "maintenanceMessage"), toISOString(t))]
        failed == Error(500, "Failed to update system settings")
    IN  IF f = "settingsSet"
        THEN Result(d, logs, failed, <<"settingsSet">>)
        ELSE Audited(SetMerge(d, SettingsPath, payload), logs,
                     logAdminAction(logs, "system_settings_updated", uid, payload, t,
                                    f = "auditAdd"),
                     failed, <<"settingsSet", "auditAdd">>)

\* PUT /api/system-settings
putSystemSettings(d, logs, uid, body, t, f) ==
    LET payload == SettingsPayload(body, t)
        failed == Error(500, "Failed to update system settings")
    IN  IF f = "settingsSet"
        THEN Result(d, logs, failed, <<"settingsSet">>)
        ELSE Audited(SetMerge(d, SettingsPath, payload), logs,
                     logAdminAction(logs, "system_settings_updated", uid, payload, t,
                                    f = "auditAdd"),
                     failed, <<"settingsSet", "auditAdd">>)

\* (variant) a return is negated without Math.abs
OrderAmountNegated(data) ==
    LET n == ToNumber(Get(data, "total"))
        total == IF Truthy(n) THEN n.v ELSE 0
    IN  IF Truthy(Get(data, "isReturn")) THEN -total ELSE total

\* One order's contribution to totalRevenue.
OrderAmount(data) ==
    LET n == ToNumber(Get(data, "total"))
        total == IF Truthy(n) THEN n.v ELSE 0
    IN  IF Truthy(Get(data, "isReturn")) THEN -Abs(total) ELSE total

RECURSIVE SumAmounts(_, _)
SumAmounts(d, paths) ==
    IF paths = {} THEN 0
    ELSE LET p == CHOOSE q \in paths : TRUE
         IN  OrderAmount(d[p]) + SumAmounts(d, paths \ {p})

\* GET /api/admin/overview
getAdminOverview(d, logs, f) ==
    IF f = "collectionsGet"
    THEN Result(d, logs, Error(500, "Failed to fetch admin overview"), <<"collectionsGet">>)
    ELSE LET eventsSnap == Collection(d, "events")
             vendorsSnap == CollectionGroup(d, "vendors")
             ordersSnap == CollectionGroup(d, "orders")
         IN  Result(d, logs,
                    Json(200, [totalEvents |-> Num(Cardinality(eventsSnap)),
                               totalVendors |-> Num(Cardinality(vendorsSnap)),
                               totalOrders |-> Num(Cardinality(ordersSnap)),
                               totalRevenue |-> Num(SumAmounts(d, ordersSnap))]),
                    <<"collectionsGet">>)

\* (variant) "archived" is accepted as an event status
EventStatusesWithArchived == {Str("active"), Str("suspended"), Str("archived")}

EventStatuses == {Str("active"), Str("suspended")}

\* (variant) the event is written with set(..., {merge: true}), which
\* creates a missing document
putEventStatusUpsert(d, logs, uid, body, t, f) ==
    LET eventId == Get(body, "eventId")
        status == Get(body, "status")
    IN  IF ~Truthy(eventId) \/ ~Truthy(status)
        THEN Result(d, logs, Error(400, "eventId and status are required"), <<>>)
        ELSE IF ~Has(EventStatuses, status)
        THEN Result(d, logs, Error(400, "Invalid status"), <<>>)
        ELSE IF f = "eventUpdate"
        THEN Result(d, logs, Error(500, "Failed to update event status"), <<"eventUpdate">>)
        ELSE Audited(SetMerge(d, EventPath(eventId.v), [status |-> status]), logs,
                     logAdminAction(logs, "event_status_updated", uid,
                                    [eventId |-> eventId, status |-> status], t,
                                    f = "auditAdd"),
                     Error(500, "Failed to update event status"),
                     <<"eventUpdate", "auditAdd">>)

\* PUT /api/admin/event-status
putEventStatus(d, logs, uid, body, t, f) ==
    LET eventId == Get(body, "eventId")
        status == Get(body, "status")
    IN  IF ~Truthy(eventId) \/ ~Truthy(status)
        THEN Result(d, logs, Error(400, "eventId and status are required"), <<>>)
        ELSE IF ~Has(EventStatuses, status)
        THEN Result(d, logs, Error(400, "Invalid status"), <<>>)
        ELSE IF f = "eventUpdate" \/ ~Exists(d, EventPath(eventId.v))
        THEN Result(d, logs, Error(500, "Failed to update event status"), <<"eventUpdate">>)
        ELSE Audited(Update(d, EventPath(eventId.v), [status |-> status]), logs,
                     logAdminAction(logs, "event_status_updated", uid,
                                    [eventId |-> eventId, status |-> status], t,
                                    f = "auditAdd"),
                     Error(500, "Failed to update event status"),
                     <<"eventUpdate", "auditAdd">>)

\* (variant) "archived" is accepted as a vendor status
VendorStatusesWithArchived ==
    {Str("pending"), Str("approved"), Str("rejected"), Str("suspended"), Str("archived")}

VendorStatuses == {Str("pending"), Str("approved"), Str("rejected"), Str("suspended")}

\* (variant) the line for "rejected" is missing: a rejected vendor's brand
\* keeps the initial value "active"
BrandStatusNoRejected(status) ==
    IF StrictEq(status, Str("suspended")) THEN Str("suspended")
    ELSE IF StrictEq(status, Str("approved")) THEN Str("active")
    ELSE IF StrictEq(status, Str("pending")) THEN Str("pending")
    ELSE Str("active")

\* The brand status derived from a vendor status.
BrandStatus(status) ==
    IF StrictEq(status, Str("rejected")) THEN Str("suspended")
    ELSE IF StrictEq(status, Str("suspended")) THEN Str("suspended")
    ELSE IF StrictEq(status, Str("approved")) THEN Str("active")
    ELSE IF StrictEq(status, Str("pending")) THEN Str("pending")
    ELSE Str("active")

\* (variant) the rejection reason is written whatever the status
VendorUpdatesAlwaysReason(status, rejectionReason) ==
    [status |-> status,
     rejectionReason |-> OrElse(rejectionReason, Str("No reason provided"))]

\* The fields written to the vendor document.
VendorUpdates(status, rejectionReason) ==
    IF StrictEq(status, Str("rejected"))
    THEN [status |-> status,
          rejectionReason |-> OrElse(rejectionReason, Str("No reason provided"))]
    ELSE [status |-> status]

\* (variant) a failing brand update restores the vendor document
putVendorStatusRollback(d, logs, uid, body, t, f) ==
    LET eventId == Get(body, "eventId")
        vendorId == Get(body, "vendorId")
        status == Get(body, "status")
        rejectionReason == Get(body, "rejectionReason")
    IN  IF ~Truthy(eventId) \/ ~Truthy(vendorId) \/ ~Truthy(status)
        THEN Result(d, logs, Error(400, "eventId, vendorId, and status are required"), <<>>)
        ELSE IF ~Has(VendorStatuses, status)
        THEN Result(d, logs, Error(400, "Invalid status"), <<>>)
        ELSE
        LET vendorRef == VendorPath(eventId.v, vendorId.v)
            failed == Error(500, "Failed to update vendor status")
            metadata == [eventId |-> eventId, vendorId |-> vendorId,
                         status |-> status, rejectionReason |-> rejectionReason]
        IN  IF f = "vendorGet"
            THEN Result(d, logs, failed, <<"vendorGet">>)
            ELSE
            LET vendorSnap == Snapshot(d, vendorRef)
            IN  IF ~vendorSnap.exists
                THEN Result(d, logs, Error(404, "Vendor not found"), <<"vendorGet">>)
                ELSE IF f = "vendorUpdate" \/ ~Exists(d, vendorRef)
                THEN Result(d, logs, failed, <<"vendorGet", "vendorUpdate">>)
                ELSE
                LET d1 == Update(d, vendorRef, VendorUpdates(status, rejectionReason))
                    brandId == Get(vendorSnap.data, "brandId")
                IN  IF ~Truthy(brandId)
                    THEN Audited(d1, logs,
                                 logAdminAction(logs, "vendor_status_updated", uid,
                                                metadata, t, f = "auditAdd"),
                                 failed, <<"vendorGet", "vendorUpdate", "auditAdd">>)
                    ELSE IF f = "brandUpdate" \/ ~Exists(d1, BrandPath(brandId.v))
                    THEN Result(d, logs, failed,
                                <<"vendorGet", "vendorUpdate", "brandUpdate">>)
                    ELSE Audited(Update(d1, BrandPath(brandId.v),
                                        [status |-> BrandStatus(status)]),
                                 logs,
                                 logAdminAction(logs, "vendor_status_updated", uid,
                                                metadata, t, f = "auditAdd"),
                                 failed,
                                 <<"vendorGet", "vendorUpdate", "brandUpdate", "auditAdd">>)

\* PUT /api/admin/vendor-status
putVendorStatus(d, logs, uid, body, t, f) ==
    LET eventId == Get(body, "eventId")
        vendorId == Get(body, "vendorId")
        status == Get(body, "status")
        rejectionReason == Get(body, "rejectionReason")
    IN  IF ~Truthy(eventId) \/ ~Truthy(vendorId) \/ ~Truthy(status)
        THEN Result(d, logs, Error(400, "eventId, vendorId, and status are required"), <<>>)
        ELSE IF ~Has(VendorStatuses, status)
        THEN Result(d, logs, Error(400, "Invalid status"), <<>>)
        ELSE
        LET vendorRef == VendorPath(eventId.v, vendorId.v)
            failed == Error(500, "Failed to update vendor status")
            metadata == [eventId |-> eventId, vendorId |-> vendorId,
                         status |-> status, rejectionReason |-> rejectionReason]
        IN  IF f = "vendorGet"
            THEN Result(d, logs, failed, <<"vendorGet">>)
            ELSE
            LET vendorSnap == Snapshot(d, vendorRef)
            IN  IF ~vendorSnap.exists
                THEN Result(d, logs, Error(404, "Vendor not found"), <<"vendorGet">>)
                ELSE IF f = "vendorUpdate" \/ ~Exists(d, vendorRef)
                THEN Result(d, logs, failed, <<"vendorGet", "vendorUpdate">>)
                ELSE
                LET d1 == Update(d, vendorRef, VendorUpdates(status, rejectionReason))
                    brandId == Get(vendorSnap.data, "brandId")
                IN  IF ~Truthy(brandId)
                    THEN Audited(d1, logs,
                                 logAdminAction(logs, "vendor_status_updated", uid,
                                                metadata, t, f = "auditAdd"),
                                 failed, <<"vendorGet", "vendorUpdate", "auditAdd">>)
                    ELSE IF f = "brandUpdate" \/ ~Exists(d1, BrandPath(brandId.v))
                    THEN Result(d1, logs, failed,
                                <<"vendorGet", "vendorUpdate", "brandUpdate">>)
                    ELSE Audited(Update(d1, BrandPath(brandId.v),
                                        [status |-> BrandStatus(status)]),
                                 logs,
                                 logAdminAction(logs, "vendor_status_updated", uid,
                                                metadata, t, f = "auditAdd"),
                                 failed,
                                 <<"vendorGet", "vendorUpdate", "brandUpdate", "auditAdd">>)

----------------------------------------------------------------------------
(* Requests *)

\* (variant) the settings read is registered with requireAdmin too
AdminRoutesWithSettingsRead ==
    {"GET /api/system-settings", "PUT /api/system-settings", "GET /api/admin/overview",
     "PUT /api/admin/event-status", "PUT /api/admin/vendor-status"}

AdminRoutes == {"PUT /api/system-settings", "GET /api/admin/overview",
                "PUT /api/admin/event-status", "PUT /api/admin/vendor-status"}

\* Bodies sent to PUT /api/system-settings.
SettingsBodies ==
    { EmptyObj,
      [maintenanceMode |-> Bool(TRUE), maintenanceMessage |-> Str("down")],
      [maintenanceMode |-> Num(0), ownerSignupDisabled |-> Str("on"), theme |-> Str("dark")],
      [brandSignupDisabled |-> Num(1), vendorSignupDisabled |-> Str(""), maintenanceMessage |-> Num(0)],
      [vendorSignupDisabled |-> Bool(TRUE), posLoginDisabled |-> Null],
      [posLoginDisabled |-> Str("on"), maintenanceMessage |-> Null, updatedAt |-> Str("never")] }

\* Bodies sent to PUT /api/admin/event-status.
EventStatusBodies ==
    { [eventId |-> Str(e), status |-> Str(s)] :
          e \in {"e1", "e9"}, s \in {"active", "suspended"} }
    \cup { [eventId |-> Str("e1"), status |-> Str("archived")],
           [eventId |-> Str("e1"), status |-> Str("")],
           [eventId |-> Str("e1")],
           [status |-> Str("active")] }

\* Bodies sent to PUT /api/admin/vendor-status.
VendorStatusBodies ==
    { [eventId |-> Str("e1"), vendorId |-> Str(v), status |-> Str(s)] :
          v \in {"v1", "v2"}, s \in {"pending", "approved", "rejected", "suspended"} }
    \cup { [eventId |-> Str("e1"), vendorId |-> Str(v), status |-> Str(s),
            rejectionReason |-> Str("spam")] :
              v \in {"v1", "v2"}, s \in {"approved", "rejected"} }
    \cup { [eventId |-> Str("e1"), vendorId |-> Str("v1"), status |-> Str("rejected"),
            rejectionReason |-> Str("")],
           [eventId |-> Str("e1"), vendorId |-> Str("v9"), status |-> Str("approved"),
            rejectionReason |-> Str("spam")],
           [eventId |-> Str("e1"), vendorId |-> Str("v1"), status |-> Str("archived"),
            rejectionReason |-> Str("spam")],
           [eventId |-> Str("e1"), vendorId |-> Str("v1"), status |-> Num(1)],
           [eventId |-> Str("e1"), vendorId |-> Str("v1")],
           [eventId |-> Str("e1"), status |-> Str("approved")],
           [vendorId |-> Str("v1"), status |-> Str("approved")] }

NoBody == EmptyObj

\* The route handler of a request.
Handle(route, d, logs, uid, body, t, f) ==
    CASE route = "GET /api/system-settings" -> getSystemSettings(d, logs, f)
      [] route = "PUT /api/system-settings" -> putSystemSettings(d, logs, uid, body, t, f)
      [] route = "GET /api/admin/overview" -> getAdminOverview(d, logs, f)
      [] route = "PUT /api/admin/event-status" -> putEventStatus(d, logs, uid, body, t, f)
      [] route = "PUT /api/admin/vendor-status" -> putVendorStatus(d, logs, uid, body, t, f)

\* (variant) a failing admin lookup is treated as "not an admin": 403
RunLookupFaultForbidden(route, header, body, d, logs, t, f) ==
    LET auth == requireAuth(header)
    IN  IF ~auth.next
        THEN [db |-> d, logs |-> logs, res |-> auth.res, calls |-> <<>>,
              chain |-> <<"requireAuth">>]
        ELSE IF route \in AdminRoutes
        THEN LET adm == requireAdmin(d, auth.uid, f = "adminGet")
             IN  IF ~adm.next
                 THEN [db |-> d, logs |-> logs,
                       res |-> IF f = "adminGet" THEN Error(403, "Forbidden") ELSE adm.res,
                       calls |-> <<"adminGet">>,
                       chain |-> <<"requireAuth", "requireAdmin">>]
                 ELSE LET h == Handle(route, d, logs, auth.uid, body, t, f)
                      IN  [db |-> h.db, logs |-> h.logs, res |-> h.res,
                           calls |-> <<"adminGet">> \o h.calls,
                           chain |-> <<"requireAuth", "requireAdmin", "handler">>]
        ELSE LET h == Handle(route, d, logs, auth.uid, body, t, f)
             IN  [db |-> h.db, logs |-> h.logs, res |-> h.res, calls |-> h.calls,
                  chain |-> <<"requireAuth", "handler">>]

\* The whole request: requireAuth, requireAdmin on the admin routes, then
\* the handler.  The result also names the functions entered.
Run(route, header, body, d, logs, t, f) ==
    LET auth == requireAuth(header)
    IN  IF ~auth.next
        THEN [db |-> d, logs |-> logs, res |-> auth.res, calls |-> <<>>,
              chain |-> <<"requireAuth">>]
        ELSE IF route \in AdminRoutes
        THEN LET adm == requireAdmin(d, auth.uid, f = "adminGet")
             IN  IF ~adm.next
                 THEN [db |-> d, logs |-> logs, res |-> adm.res, calls |-> <<"adminGet">>,
                       chain |-> <<"requireAuth", "requireAdmin">>]
                 ELSE LET h == Handle(route, d, logs, auth.uid, body, t, f)
                      IN  [db |-> h.db, logs |-> h.logs, res |-> h.res,
                           calls |-> <<"adminGet">> \o h.calls,
                           chain |-> <<"requireAuth", "requireAdmin", "handler">>]
        ELSE LET h == Handle(route, d, logs, auth.uid, body, t, f)
             IN  [db |-> h.db, logs |-> h.logs, res |-> h.res, calls |-> h.calls,
                  chain |-> <<"requireAuth", "handler">>]

NoRequest == [route |-> "", header |-> <<>>, body |-> EmptyObj]
NoResponse == Json(0, EmptyObj)

Range(s) == {s[i] : i \in 1..Len(s)}

\* Serve one request.  The environment may fault any one of the store calls
\* the request gets to make.
Serve(route, header, body) ==
    /\ req = NoRequest
    /\ \E f \in {"none"} \cup Range(Run(route, header, body, db, auditLogs, now + 1, "none").calls) :
          LET r == Run(route, header, body, db, auditLogs, now + 1, f)
          IN  /\ db' = r.db
              /\ auditLogs' = r.logs
              /\ res' = r.res
              /\ calls' = r.calls
              /\ chain' = r.chain
              /\ fault' = f
    /\ now' = now + 1
    /\ req' = [route |-> route, header |-> header, body |-> body]
    /\ UNCHANGED inflight

GetSystemSettings ==
    \E header \in Headers : Serve("GET /api/system-settings", header, NoBody)

PutSystemSettings ==
    \E header \in Headers, body \in SettingsBodies :
        Serve("PUT /api/system-settings", header, body)

GetAdminOverview ==
    \E header \in Headers : Serve("GET /api/admin/overview", header, NoBody)

PutEventStatus ==
    \E header \in Headers, body \in EventStatusBodies :
        Serve("PUT /api/admin/event-status", header, body)

PutVendorStatus ==
    \E header \in Headers, body \in VendorStatusBodies :
        Serve("PUT /api/admin/vendor-status", header, body)

\* The response has been sent and the request is over: its request-scoped
\* values are gone; the store and the clock stay.
Finish ==
    /\ req # NoRequest
    /\ req' = NoRequest
    /\ res' = NoResponse
    /\ chain' = <<>>
    /\ calls' = <<>>
    /\ fault' = "none"
    /\ UNCHANGED <<db, auditLogs, now, inflight>>

----------------------------------------------------------------------------
(* The status routes, step by step.  A request being served occupies a     *)
(* slot; pc names the store call it is awaiting.  An action is the         *)
(* completion of that call followed by the code up to the next await (or   *)
(* to the response).  Requests in different slots interleave freely: the   *)
(* server takes no lock and runs no transaction.                           *)

Slots == {1, 2}

IdleFlight == [pc |-> "idle", route |-> "", body |-> EmptyObj, uid |-> "",
               vendorData |-> EmptyObj, res |-> NoResponse]

\* Requests served step by step.
StepHeaders == {<<>>, BearerPrefix \o <<"a">>, BearerPrefix \o <<"u">>}

StepEventBodies ==
    { [eventId |-> Str("e1"), status |-> Str("suspended")],
      [eventId |-> Str("e9"), status |-> Str("active")] }

StepVendorBodies ==
    { [eventId |-> Str("e1"), vendorId |-> Str("v1"), status |-> Str("approved")],
      [eventId |-> Str("e1"), vendorId |-> Str("v1"), status |-> Str("suspended"),
       rejectionReason |-> Str("spam")],
      [eventId |-> Str("e1"), vendorId |-> Str("v1"), status |-> Str("rejected")],
      [eventId |-> Str("e1"), vendorId |-> Str("v2"), status |-> Str("pending"),
       rejectionReason |-> Str("spam")],
      [eventId |-> Str("e1"), vendorId |-> Str("v9"), status |-> Str("approved")],
      [eventId |-> Str("e1"), vendorId |-> Str("v1"), status |-> Str("archived")] }

StepRequests ==
    { [route |-> "PUT /api/admin/event-status", header |-> h, body |-> b] :
          h \in StepHeaders, b \in StepEventBodies }
    \cup { [route |-> "PUT /api/admin/vendor-status", header |-> h, body |-> b] :
               h \in StepHeaders, b \in StepVendorBodies }

\* The request of slot i sends its response and ends.
Respond(i, r) == inflight' = [inflight EXCEPT ![i].pc = "done", ![i].res = r]

\* The request of slot i issues the store call c and awaits it.
Await(i, c) == inflight' = [inflight EXCEPT ![i].pc = c]

\* A request arrives: requireAuth (the token verification touches nothing
\* the requests share), then requireAdmin up to its lookup.
Receive(i) ==
    /\ inflight[i].pc = "idle"
    /\ \A j \in Slots : j < i => inflight[j].pc # "idle"
    /\ \E r \in StepRequests :
          LET auth == requireAuth(r.header)
          IN  inflight' = [inflight EXCEPT ![i] =
                 IF ~auth.next
                 THEN [IdleFlight EXCEPT !.pc = "done", !.route = r.route,
                                         !.body = r.body, !.res = auth.res]
                 ELSE [IdleFlight EXCEPT !.pc = "adminGet", !.route = r.route,
                                         !.body = r.body, !.uid = auth.uid]]
    /\ now' = now + 1
    /\ UNCHANGED <<db, auditLogs, req, res, chain, calls, fault>>

\* The first lines of a status handler, up to its first store call.
StartHandler(i) ==
    LET body == inflight[i].body
        status == Get(body, "status")
    IN  IF inflight[i].route = "PUT /api/admin/event-status"
        THEN IF ~Truthy(Get(body, "eventId")) \/ ~Truthy(status)
             THEN Respond(i, Error(400, "eventId and status are required"))
             ELSE IF ~Has(EventStatuses, status)
             THEN Respond(i, Error(400, "Invalid status"))
             ELSE Await(i, "eventUpdate")
        ELSE IF ~Truthy(Get(body, "eventId")) \/ ~Truthy(Get(body, "vendorId"))
                \/ ~Truthy(status)
             THEN Respond(i, Error(400, "eventId, vendorId, and status are required"))
             ELSE IF ~Has(VendorStatuses, status)
             THEN Respond(i, Error(400, "Invalid status"))
             ELSE Await(i, "vendorGet")

\* The admin lookup completes; the caller let through, the handler starts.
AdminLookedUp(i) ==
    /\ inflight[i].pc = "adminGet"
    /\ \E faults \in BOOLEAN :
          LET adm == requireAdmin(db, inflight[i].uid, faults)
          IN  IF ~adm.next THEN Respond(i, adm.res) ELSE StartHandler(i)
    /\ UNCHANGED <<db, auditLogs, now, req, res, chain, calls, fault>>

\* The event update completes; logAdminAction issues its add().
EventUpdated(i) ==
    /\ inflight[i].pc = "eventUpdate"
    /\ LET event == EventPath(inflight[i].body["eventId"].v)
       IN  \E faults \in BOOLEAN :
              IF faults \/ ~Exists(db, event)
              THEN /\ Respond(i, Error(500, "Failed to update event status"))
                   /\ db' = db
              ELSE /\ db' = Update(db, event, [status |-> inflight[i].body["status"]])
                   /\ Await(i, "auditAdd")
    /\ UNCHANGED <<auditLogs, now, req, res, chain, calls, fault>>

\* vendorRef.get() completes.
VendorFetched(i) ==
    /\ inflight[i].pc = "vendorGet"
    /\ \E faults \in BOOLEAN :
          LET vendorSnap == Snapshot(db, RequestedVendorOf(inflight[i].body))
          IN  IF faults
              THEN Respond(i, Error(500, "Failed to update vendor status"))
              ELSE IF ~vendorSnap.exists
              THEN Respond(i, Error(404, "Vendor not found"))
              ELSE inflight' = [inflight EXCEPT ![i].pc = "vendorUpdate",
                                                ![i].vendorData = vendorSnap.data]
    /\ UNCHANGED <<db, auditLogs, now, req, res, chain, calls, fault>>

\* vendorRef.update(updates) completes; the brand update or, for a vendor
\* without brandId, logAdminAction's add() is issued.
VendorUpdated(i) ==
    /\ inflight[i].pc = "vendorUpdate"
    /\ LET body == inflight[i].body
           vendorRef == RequestedVendorOf(body)
       IN  \E faults \in BOOLEAN :
              IF faults \/ ~Exists(db, vendorRef)
              THEN /\ Respond(i, Error(500, "Failed to update vendor status"))
                   /\ db' = db
              ELSE /\ db' = Update(db, vendorRef,
                                   VendorUpdates(body["status"], Get(body, "rejectionReason")))
                   /\ IF Truthy(Get(inflight[i].vendorData, "brandId"))
                      THEN Await(i, "brandUpdate")
                      ELSE Await(i, "auditAdd")
    /\ UNCHANGED <<auditLogs, now, req, res, chain, calls, fault>>

\* (variant) the brand gets the vendor's status as it is, unmapped
BrandUpdatedUnmapped(i) ==
    /\ inflight[i].pc = "brandUpdate"
    /\ LET brand == BrandPath(inflight[i].vendorData["brandId"].v)
       IN  \E faults \in BOOLEAN :
              IF faults \/ ~Exists(db, brand)
              THEN /\ Respond(i, Error(500, "Failed to update vendor status"))
                   /\ db' = db
              ELSE /\ db' = Update(db, brand, [status |-> inflight[i].body["status"]])
                   /\ Await(i, "auditAdd")
    /\ UNCHANGED <<auditLogs, now, req, res, chain, calls, fault>>

\* The brand update completes; logAdminAction issues its add().
BrandUpdated(i) ==
    /\ inflight[i].pc = "brandUpdate"
    /\ LET brand == BrandPath(inflight[i].vendorData["brandId"].v)
       IN  \E faults \in BOOLEAN :
              IF faults \/ ~Exists(db, brand)
              THEN /\ Respond(i, Error(500, "Failed to update vendor status"))
                   /\ db' = db
              ELSE /\ db' = Update(db, brand,
                                   [status |-> BrandStatus(inflight[i].body["status"])])
                   /\ Await(i, "auditAdd")
    /\ UNCHANGED <<auditLogs, now, req, res, chain, calls, fault>>

\* The metadata a status handler passes to logAdminAction.
AuditMetadata(route, body) ==
    IF route = "PUT /api/admin/event-status"
    THEN [eventId |-> body["eventId"], status |-> body["status"]]
    ELSE [eventId |-> body["eventId"], vendorId |-> body["vendorId"],
          status |-> body["status"], rejectionReason |-> Get(body, "rejectionReason")]

\* add() settles, logAdminAction returns, and the handler, which awaited
\* it, sends {ok: true}.
AuditAdded(i) ==
    /\ inflight[i].pc = "auditAdd"
    /\ \E faults \in BOOLEAN :
          LET f == inflight[i]
              audit == logAdminAction(auditLogs,
                                      IF f.route = "PUT /api/admin/event-status"
                                      THEN "event_status_updated"
                                      ELSE "vendor_status_updated",
                                      f.uid, AuditMetadata(f.route, f.body), now, faults)
              failed == IF f.route = "PUT /api/admin/event-status"
                        THEN Error(500, "Failed to update event status")
                        ELSE Error(500, "Failed to update vendor status")
          IN  /\ auditLogs' = audit.logs
              /\ Respond(i, Audited(db, auditLogs, audit, failed, <<>>).res)
    /\ UNCHANGED <<db, now, req, res, chain, calls, fault>>

\* The response has been delivered: the slot is free again.
Complete(i) ==
    /\ inflight[i].pc = "done"
    /\ inflight' = [inflight EXCEPT ![i] = IdleFlight]
    /\ UNCHANGED <<db, auditLogs, now, req, res, chain, calls, fault>>

----------------------------------------------------------------------------
(* Initial state *)

\* The admin records, events, vendors and brands of the deployment.
BaseDocs ==
    (AdminPath("admin-1") :> [role |-> Str("super_admin")])
    @@ (AdminPath("flag-1") :> [role |-> Str("editor"), isSuperAdmin |-> Bool(TRUE)])
    @@ (AdminPath("editor-1") :> [role |-> Str("editor")])
    @@ (EventPath("e1") :> [status |-> Str("active"), ownerUserId |-> Str("owner-1")])
    @@ (VendorPath("e1", "v1") :> [status |-> Str("pending"), brandId |-> Str("b1")])
    @@ (VendorPath("e1", "v2") :> [status |-> Str("pending")])
    @@ (BrandPath("b1") :> [status |-> Str("pending")])
    @@ (BrandPath("b2") :> [status |-> Str("active")])

ExampleOrders ==
    (OrderPath("e1", "o1") :> [total |-> Num(100), isReturn |-> Bool(FALSE)])
    @@ (OrderPath("e1", "o2") :> [total |-> Num(40), isReturn |-> Bool(TRUE)])
    @@ (OrderPath("e1", "o3") :> [total |-> Str("bad")])

Init ==
    /\ db = BaseDocs @@ ExampleOrders
    /\ auditLogs = <<>>
    /\ now = 0
    /\ req = NoRequest
    /\ res = NoResponse
    /\ chain = <<>>
    /\ calls = <<>>
    /\ fault = "none"
    /\ inflight = [i \in Slots |-> IdleFlight]

\* Every route.
Next ==
    \/ now < MaxRequests /\ GetSystemSettings
    \/ now < MaxRequests /\ PutSystemSettings
    \/ now < MaxRequests /\ GetAdminOverview
    \/ now < MaxRequests /\ PutEventStatus
    \/ now < MaxRequests /\ PutVendorStatus
    \/ Finish

Spec == Init /\ [][Next]_vars

\* The settings routes, longer sequences.
NextSettings ==
    \/ now < MaxSettingsRequests /\ GetSystemSettings
    \/ now < MaxSettingsRequests /\ PutSystemSettings
    \/ Finish

SpecSettings == Init /\ [][NextSettings]_vars

\* The status routes, longer sequences.
NextStatus ==
    \/ now < MaxStatusRequests /\ PutEventStatus
    \/ now < MaxStatusRequests /\ PutVendorStatus
    \/ Finish

SpecStatus == Init /\ [][NextStatus]_vars

\* The status routes served step by step, up to two requests at a time.
NextSteps ==
    \/ \E i \in Slots : now < MaxStepRequests /\ Receive(i)
    \/ \E i \in Slots : AdminLookedUp(i)
    \/ \E i \in Slots : EventUpdated(i)
    \/ \E i \in Slots : VendorFetched(i)
    \/ \E i \in Slots : VendorUpdated(i)
    \/ \E i \in Slots : BrandUpdated(i)
    \/ \E i \in Slots : AuditAdded(i)
    \/ \E i \in Slots : Complete(i)

SpecSteps == Init /\ [][NextSteps]_vars

\* The overview route over varied order collections.
OrderIds == <<"o1", "o2", "o3", "o4", "o5">>

\* Order documents as clients write them.
OrderPool ==
    { [total |-> Num(100), isReturn |-> Bool(FALSE)],
      [total |-> Num(40), isReturn |-> Bool(TRUE)],
      [total |-> Str("bad")],
      [total |-> Num(-30)],
      [total |-> Num(-40), isReturn |-> Bool(TRUE)],
      [total |-> Str("25"), isReturn |-> Num(1)],
      [isReturn |-> Bool(TRUE)],
      [total |-> Null, isReturn |-> Str("")] }

OrderDocs(orders) ==
    [p \in {OrderPath("e1", OrderIds[i]) : i \in 1..Len(orders)} |->
        orders[CHOOSE i \in 1..Len(orders) : p = OrderPath("e1", OrderIds[i])]]

\* A second event with one vendor, present in some deployments.
SecondEvent ==
    (EventPath("e2") :> [status |-> Str("suspended"), ownerUserId |-> Str("owner-2")])
    @@ (VendorPath("e2", "v3") :> [status |-> Str("approved"), brandId |-> Str("b2")])

InitOverview ==
    /\ \E n \in 0..MaxOrders : \E orders \in [1..n -> OrderPool] :
         \E more \in {EmptyObj, SecondEvent} :
            db = BaseDocs @@ more @@ OrderDocs(orders)
    /\ auditLogs = <<>>
    /\ now = 0
    /\ req = NoRequest
    /\ res = NoResponse
    /\ chain = <<>>
    /\ calls = <<>>
    /\ fault = "none"
    /\ inflight = [i \in Slots |-> IdleFlight]

NextOverview ==
    \/ now < MaxRequests /\ GetAdminOverview
    \/ Finish

SpecOverview == InitOverview /\ [][NextOverview]_vars

----------------------------------------------------------------------------
(* Shorthands for the properties *)

StoreUnchanged == db' = db /\ auditLogs' = auditLogs

HandlerRan == "handler" \in Range(chain)

\* The header is "Bearer <token>" with a token the identity provider issued.
ValidBearer(header) == \E token \in DOMAIN IssuedTokens : header = BearerPrefix \o token

\* The uid of the caller of a request with a valid bearer token.
CallerUid(header) == IssuedTokens[SubSeq(header, Len(BearerPrefix) + 1, Len(header))]

AdminOnlyRoutes == {"PUT /api/system-settings", "GET /api/admin/overview",
                    "PUT /api/admin/event-status", "PUT /api/admin/vendor-status"}

----------------------------------------------------------------------------
(* C1 *)

\* C1: a request to an admin-only route whose Authorization header is
\* absent, is not "Bearer <token>", or carries a token that fails
\* verification is answered 401, whatever its body, and no document of the
\* store or of the audit log is written.
C1_NoValidTokenIs401 ==
    [][(req'.route \in AdminOnlyRoutes /\ ~ValidBearer(req'.header))
         => (res'.status = 401 /\ StoreUnchanged)]_vars

\* A vendor-status request with a valid body and a lower-case "bearer"
\* scheme has been answered 401.
C1_Witness ==
    /\ req.route = "PUT /api/admin/vendor-status"
    /\ req.header = <<"b", "e", "a", "r", "e", "r", " ", "a">>
    /\ Get(req.body, "status") = Str("approved")
    /\ Get(req.body, "vendorId") = Str("v1")
    /\ res.status = 401

----------------------------------------------------------------------------
(* C2 *)

RoleIsSuperAdmin(d, uid) ==
    /\ AdminPath(uid) \in DOMAIN d
    /\ "role" \in DOMAIN d[AdminPath(uid)]
    /\ d[AdminPath(uid)]["role"] = Str("super_admin")

FlaggedSuperAdmin(d, uid) ==
    /\ AdminPath(uid) \in DOMAIN d
    /\ "isSuperAdmin" \in DOMAIN d[AdminPath(uid)]
    /\ d[AdminPath(uid)]["isSuperAdmin"] \notin {Bool(FALSE), Num(0), Str(""), Null}

----------------------------------------------------------------------------
(* C3 *)

Succeeded == res.status = 200 /\ Get(res.body, "ok") = Bool(TRUE)

\* The brand status the documentation gives for each vendor status.
MappedBrandStatus ==
    [pending |-> "pending", approved |-> "active",
     suspended |-> "suspended", rejected |-> "suspended"]

\* The vendor document a vendor-status request names.
RequestedVendor(r) == VendorPath(Get(r.body, "eventId").v, Get(r.body, "vendorId").v)

\* C3: after a successful vendor-status request with status s on a vendor
\* that references brand B, the vendor's stored status is s and B's stored
\* status is the mapping of s (pending->pending, approved->active,
\* suspended->suspended, rejected->suspended).
C3_VendorAndBrandStatus ==
    (/\ req.route = "PUT /api/admin/vendor-status"
     /\ Succeeded
     /\ "brandId" \in DOMAIN db[RequestedVendor(req)])
        => LET vendor == db[RequestedVendor(req)]
               s == req.body["status"]
           IN  /\ vendor["status"] = s
               /\ db[BrandPath(vendor["brandId"].v)]["status"] = Str(MappedBrandStatus[s.v])

\* Vendor v1 (brand b1) has been rejected and b1 is suspended.
C3_Witness ==
    /\ req.route = "PUT /api/admin/vendor-status"
    /\ Succeeded
    /\ Get(req.body, "vendorId") = Str("v1")
    /\ Get(req.body, "status") = Str("rejected")
    /\ db[BrandPath("b1")]["status"] = Str("suspended")

----------------------------------------------------------------------------
(* C4 *)

FieldMissing(body, k) == k \notin DOMAIN body \/ body[k] \in {Str(""), Null}

\* A status request that must fail validation.
InvalidStatusRequest(r) ==
    \/ /\ r.route = "PUT /api/admin/event-status"
       /\ \/ FieldMissing(r.body, "eventId")
          \/ FieldMissing(r.body, "status")
          \/ r.body["status"] \notin {Str("active"), Str("suspended")}
    \/ /\ r.route = "PUT /api/admin/vendor-status"
       /\ \/ FieldMissing(r.body, "eventId")
          \/ FieldMissing(r.body, "vendorId")
          \/ FieldMissing(r.body, "status")
          \/ r.body["status"] \notin
                {Str("pending"), Str("approved"), Str("rejected"), Str("suspended")}

\* C4: an authorized event-status or vendor-status request with a required
\* field missing, or a status outside the endpoint's enumeration, is answered
\* 400, and its handler makes no store call: no event, vendor, brand or
\* audit-log document is read or written.
C4_ValidationBeforeMutation ==
    [][(HandlerRan' /\ InvalidStatusRequest(req'))
         => /\ res'.status = 400
            /\ StoreUnchanged
            /\ calls' = <<"adminGet">>]_vars

\* An admin's event-status request with status "archived" has been answered
\* 400.
C4_Witness ==
    /\ req.route = "PUT /api/admin/event-status"
    /\ HandlerRan
    /\ Get(req.body, "eventId") = Str("e1")
    /\ Get(req.body, "status") = Str("archived")
    /\ res.status = 400

----------------------------------------------------------------------------
(* C5 *)

\* C5: an authorized, valid vendor-status request that names a vendor whose
\* document does not exist, with no store call faulting, is answered 404;
\* no audit entry is appended and no document is created or updated.
C5_UnknownVendorIs404 ==
    [][(/\ req'.route = "PUT /api/admin/vendor-status"
        /\ HandlerRan'
        /\ ~InvalidStatusRequest(req')
        /\ fault' = "none"
        /\ RequestedVendor(req') \notin DOMAIN db)
         => (res'.status = 404 /\ StoreUnchanged)]_vars

\* An admin's request for vendor v9, which does not exist, has been answered
\* 404.
C5_Witness ==
    /\ req.route = "PUT /api/admin/vendor-status"
    /\ HandlerRan
    /\ Get(req.body, "vendorId") = Str("v9")
    /\ VendorPath("e1", "v9") \notin DOMAIN db
    /\ res.status = 404
    /\ auditLogs = <<>>

----------------------------------------------------------------------------
(* C6 *)

IsEvent(p) == Len(p) = 2 /\ p[1] = "events"
IsVendor(p) == Len(p) = 4 /\ p[1] = "events" /\ p[3] = "vendors"
IsBrand(p) == Len(p) = 2 /\ p[1] = "brands"

StatusesInRange ==
    \A p \in DOMAIN db :
        /\ IsEvent(p) => db[p]["status"] \in {Str("active"), Str("suspended")}
        /\ IsVendor(p) => db[p]["status"] \in
              {Str("pending"), Str("approved"), Str("rejected"), Str("suspended")}
        /\ IsBrand(p) => db[p]["status"] \in {Str("pending"), Str("active"), Str("suspended")}

BrandStatusChanged ==
    \E p \in DOMAIN db : IsBrand(p) /\ (p \notin DOMAIN db' \/ db'[p]["status"] # db[p]["status"])

\* C6: in every reachable state every event status is active or suspended,
\* every vendor status is pending, approved, rejected or suspended, and every
\* brand status is pending, active or suspended; and a brand's status
\* changes only in a vendor-status request.
C6_StatusEnumerations ==
    /\ []StatusesInRange
    /\ [][BrandStatusChanged => req'.route = "PUT /api/admin/vendor-status"]_vars

\* After two requests event e1 is suspended and brand b1, pending at the
\* start, is active.
C6_Witness ==
    /\ now = 2
    /\ db[EventPath("e1")]["status"] = Str("suspended")
    /\ db[VendorPath("e1", "v1")]["status"] = Str("approved")
    /\ db[BrandPath("b1")]["status"] = Str("active")

----------------------------------------------------------------------------
(* C7, C8 *)

RecognizedBooleans == {"maintenanceMode", "ownerSignupDisabled", "brandSignupDisabled",
                       "vendorSignupDisabled", "posLoginDisabled"}

\* The request's value of field k is truthy.
SentTruthy(body, k) ==
    k \in DOMAIN body /\ body[k] \notin {Bool(FALSE), Num(0), Str(""), Null}

\* The stored settings are those the last request asked for.
SettingsStoredAsSent ==
    /\ SettingsPath \in DOMAIN db
    /\ \A k \in RecognizedBooleans : db[SettingsPath][k] = Bool(SentTruthy(req.body, k))
    /\ "maintenanceMessage" \notin DOMAIN req.body
          => db[SettingsPath]["maintenanceMessage"] = Str("")

\* The primary write of the last request is in the store.
PrimaryWriteApplied ==
    CASE req.route = "PUT /api/system-settings" ->
            SettingsStoredAsSent /\ db[SettingsPath]["updatedAt"] = toISOString(now)
      [] req.route = "PUT /api/admin/event-status" ->
            db[EventPath(req.body["eventId"].v)]["status"] = req.body["status"]
      [] req.route = "PUT /api/admin/vendor-status" ->
            db[RequestedVendor(req)]["status"] = req.body["status"]
      [] OTHER -> FALSE

\* C7: when the audit-log append of a mutating request faults (the primary
\* writes having succeeded), the response is still {ok: true}, not 500, and
\* the primary write stays applied.
C7_AuditFaultIsSwallowed ==
    fault = "auditAdd" => (Succeeded /\ PrimaryWriteApplied)

\* A vendor-status request whose audit append faulted: answered {ok: true},
\* vendor v1 approved, nothing in the audit log.
C7_Witness ==
    /\ fault = "auditAdd"
    /\ req.route = "PUT /api/admin/vendor-status"
    /\ Succeeded
    /\ db[VendorPath("e1", "v1")]["status"] = Str("approved")
    /\ auditLogs = <<>>

\* C8: after a successful settings write each recognized boolean is stored
\* as the strict boolean of the request's value (false when missing) and a
\* missing message as ""; and the settings document, absent at the start,
\* never holds a key besides the recognized fields and updatedAt.
C8_SettingsNormalized ==
    /\ (req.route = "PUT /api/system-settings" /\ Succeeded) => SettingsStoredAsSent
    /\ SettingsPath \in DOMAIN db
          => DOMAIN db[SettingsPath] \subseteq
                RecognizedBooleans \cup {"maintenanceMessage", "updatedAt"}

\* A first write stored maintenanceMode = true and the message "down"; the
\* second, which carries the unrecognized field "theme" and no message, has
\* stored maintenanceMode = false, ownerSignupDisabled = true and "".
C8_Witness ==
    /\ req.route = "PUT /api/system-settings"
    /\ Succeeded
    /\ "theme" \in DOMAIN req.body
    /\ Len(auditLogs) = 2
    /\ auditLogs[1].metadata["maintenanceMode"] = Bool(TRUE)
    /\ auditLogs[1].metadata["maintenanceMessage"] = Str("down")
    /\ db[SettingsPath]["maintenanceMode"] = Bool(FALSE)
    /\ db[SettingsPath]["ownerSignupDisabled"] = Bool(TRUE)
    /\ db[SettingsPath]["maintenanceMessage"] = Str("")

----------------------------------------------------------------------------
(* C9 *)

\* C9: GET /api/system-settings without a valid bearer token is answered
\* 401; from any verified caller, admin or not, it returns (no store call
\* faulting) exactly the stored settings document, or {} if there is none;
\* and it writes nothing.
C9_SettingsRead ==
    [][req'.route = "GET /api/system-settings"
         => /\ StoreUnchanged
            /\ ~ValidBearer(req'.header) => res'.status = 401
            /\ (ValidBearer(req'.header) /\ fault' = "none")
                 => /\ res'.status = 200
                    /\ res'.body = IF SettingsPath \in DOMAIN db
                                   THEN db[SettingsPath] ELSE EmptyObj]_vars

\* The caller without an admin record has read the settings an admin
\* stored before.
C9_Witness ==
    /\ req.route = "GET /api/system-settings"
    /\ ValidBearer(req.header)
    /\ CallerUid(req.header) = "user-2"
    /\ AdminPath("user-2") \notin DOMAIN db
    /\ res.status = 200
    /\ SettingsPath \in DOMAIN db
    /\ res.body = db[SettingsPath]

----------------------------------------------------------------------------
(* C10 *)

IsOrder(p) == Len(p) = 4 /\ p[1] = "events" /\ p[3] = "orders"

\* The numeric value of an order's total; a total that is no number (a
\* missing one, null, a string that is no numeral) counts as 0.
TotalOf(order) ==
    IF "total" \notin DOMAIN order THEN 0
    ELSE IF order["total"].t = "num" THEN order["total"].v
    ELSE IF order["total"] = Str("25") THEN 25
    ELSE 0

FlaggedReturn(order) ==
    "isReturn" \in DOMAIN order /\ order["isReturn"] \notin {Bool(FALSE), Num(0), Str(""), Null}

RECURSIVE Revenue(_, _)
Revenue(d, orders) ==
    IF orders = {} THEN 0
    ELSE LET p == CHOOSE q \in orders : TRUE
             amount == IF FlaggedReturn(d[p])
                       THEN IF TotalOf(d[p]) < 0 THEN TotalOf(d[p]) ELSE 0 - TotalOf(d[p])
                       ELSE TotalOf(d[p])
         IN  amount + Revenue(d, orders \ {p})

\* C10: a successful GET /api/admin/overview returns the numbers of event,
\* vendor and order documents and, as totalRevenue, the sum over all orders
\* of +total for an order not flagged isReturn and -|total| for one flagged,
\* a non-numeric total counting as 0; the request writes nothing.
C10_Overview ==
    [][req'.route = "GET /api/admin/overview"
         => /\ StoreUnchanged
            /\ res'.status = 200
                 => res'.body =
                      [totalEvents |-> Num(Cardinality({p \in DOMAIN db : IsEvent(p)})),
                       totalVendors |-> Num(Cardinality({p \in DOMAIN db : IsVendor(p)})),
                       totalOrders |-> Num(Cardinality({p \in DOMAIN db : IsOrder(p)})),
                       totalRevenue |-> Num(Revenue(db, {p \in DOMAIN db : IsOrder(p)}))]]_vars

\* The orders 100, 40 (a return) and "bad" have been reported as a revenue
\* of 60 over three orders.
C10_Witness ==
    /\ req.route = "GET /api/admin/overview"
    /\ res.status = 200
    /\ {db[p] : p \in {q \in DOMAIN db : IsOrder(q)}} =
          {[total |-> Num(100), isReturn |-> Bool(FALSE)],
           [total |-> Num(40), isReturn |-> Bool(TRUE)],
           [total |-> Str("bad")]}
    /\ res.body["totalOrders"] = Num(3)
    /\ res.body["totalRevenue"] = Num(60)

----------------------------------------------------------------------------
(* C11 *)

WithoutUpdatedAt(doc) == [k \in DOMAIN doc \ {"updatedAt"} |-> doc[k]]

\* C11: whatever the stored settings were, once a settings write has
\* succeeded, the identical write applied again (at a later time) succeeds
\* and leaves the same settings document, updatedAt set aside.
C11_SettingsWriteIdempotent ==
    [][(req'.route = "PUT /api/system-settings" /\ Succeeded')
         => LET again == putSystemSettings(db', auditLogs', CallerUid(req'.header),
                                           req'.body, now' + 1, "none")
            IN  /\ again.res = Ok
                /\ WithoutUpdatedAt(again.db[SettingsPath])
                      = WithoutUpdatedAt(db'[SettingsPath])]_vars

\* The same body, with no message, has been written twice in a row over an
\* absent document: both writes stored the same fields, at different times.
C11_Witness ==
    /\ req.route = "PUT /api/system-settings"
    /\ Succeeded
    /\ req.body = [vendorSignupDisabled |-> Bool(TRUE), posLoginDisabled |-> Null]
    /\ Len(auditLogs) = 2
    /\ WithoutUpdatedAt(auditLogs[1].metadata) = WithoutUpdatedAt(auditLogs[2].metadata)
    /\ auditLogs[1].metadata["updatedAt"] # auditLogs[2].metadata["updatedAt"]
    /\ WithoutUpdatedAt(db[SettingsPath]) = WithoutUpdatedAt(auditLogs[1].metadata)
    /\ db[SettingsPath]["updatedAt"] = toISOString(2)

----------------------------------------------------------------------------
(* C12 *)

\* The last request appended the last entry of the audit log.
AppendedEntry == auditLogs # <<>> /\ auditLogs[Len(auditLogs)].createdAt = now

\* C12: the audit entry appended by a successful vendor-status request
\* holds, as metadata, the request's event id, vendor id and new status, and
\* a null rejection reason whenever the new status is not "rejected", even
\* if the request carried a rejection reason.
C12_AuditMetadata ==
    (req.route = "PUT /api/admin/vendor-status" /\ Succeeded /\ AppendedEntry)
        => LET metadata == auditLogs[Len(auditLogs)].metadata
           IN  /\ metadata["eventId"] = req.body["eventId"]
               /\ metadata["vendorId"] = req.body["vendorId"]
               /\ metadata["status"] = req.body["status"]
               /\ req.body["status"] # Str("rejected")
                     => metadata["rejectionReason"] = Null

----------------------------------------------------------------------------
(* C13 *)

\* The brand the requested vendor referenced before the request.
RequestedBrand(r) == BrandPath(db[RequestedVendor(r)]["brandId"].v)

\* C13: when the brand update of a vendor-status request faults after the
\* vendor update succeeded, the response is 500, the vendor keeps its new
\* status, the brand document is as it was, and no audit entry is appended.
C13_BrandFaultNoRollback ==
    [][(req'.route = "PUT /api/admin/vendor-status" /\ fault' = "brandUpdate")
         => /\ res'.status = 500
            /\ calls' = <<"adminGet", "vendorGet", "vendorUpdate", "brandUpdate">>
            /\ db'[RequestedVendor(req')]["status"] = req'.body["status"]
            /\ db'[RequestedBrand(req')] = db[RequestedBrand(req')]
            /\ auditLogs' = auditLogs]_vars

\* Rejecting vendor v1 failed at the brand update: answered 500, v1 is
\* rejected while its brand b1 is still pending, which is not the mapping of
\* "rejected"; the audit log is empty.
C13_Witness ==
    /\ req.route = "PUT /api/admin/vendor-status"
    /\ fault = "brandUpdate"
    /\ res.status = 500
    /\ db[VendorPath("e1", "v1")]["status"] = Str("rejected")
    /\ db[BrandPath("b1")]["status"] = Str("pending")
    /\ Str(MappedBrandStatus["rejected"]) # db[BrandPath("b1")]["status"]
    /\ auditLogs = <<>>

----------------------------------------------------------------------------
(* C16 *)

\* C16: a valid event-status request issues the event update before the
\* audit append, and an entry is appended only with the update applied; if
\* the update faults, as it does when the named event does not exist, the
\* response is 500, no document is created or changed and no audit entry is
\* appended.
C16_EventUpdateThenAudit ==
    [][(/\ req'.route = "PUT /api/admin/event-status"
        /\ HandlerRan'
        /\ ~InvalidStatusRequest(req'))
         => LET event == EventPath(req'.body["eventId"].v)
            IN  IF fault' = "eventUpdate" \/ event \notin DOMAIN db
                THEN /\ res'.status = 500
                     /\ calls' = <<"adminGet", "eventUpdate">>
                     /\ StoreUnchanged
                ELSE /\ calls' = <<"adminGet", "eventUpdate", "auditAdd">>
                     /\ db'[event]["status"] = req'.body["status"]
                     /\ Succeeded']_vars

\* A request to activate event e9, which does not exist, with no store
\* fault injected: answered 500, there is still no e9 and no audit entry.
C16_Witness ==
    /\ req.route = "PUT /api/admin/event-status"
    /\ HandlerRan
    /\ req.body = [eventId |-> Str("e9"), status |-> Str("active")]
    /\ fault = "none"
    /\ res.status = 500
    /\ EventPath("e9") \notin DOMAIN db
    /\ auditLogs = <<>>

----------------------------------------------------------------------------
(* C17 *)

\* C17: when the lookup of the caller's admin record faults, the request is
\* answered 500, not 403 and not granted: the handler does not run, no
\* further store call is made and nothing is written.
C17_LookupFaultIs500 ==
    [][fault' = "adminGet"
         => /\ res'.status = 500
            /\ ~HandlerRan'
            /\ calls' = <<"adminGet">>
            /\ StoreUnchanged]_vars

\* The super admin's settings write whose admin lookup faulted: answered
\* 500 "Failed to authorize admin", the settings document was not created.
C17_Witness ==
    /\ fault = "adminGet"
    /\ req.route = "PUT /api/system-settings"
    /\ ValidBearer(req.header)
    /\ RoleIsSuperAdmin(db, CallerUid(req.header))
    /\ res = Error(500, "Failed to authorize admin")
    /\ chain = <<"requireAuth", "requireAdmin">>
    /\ SettingsPath \notin DOMAIN db
    /\ auditLogs = <<>>

----------------------------------------------------------------------------
(* C18 *)

\* C18: a successful vendor-status request with status "rejected" stores,
\* as the vendor's rejectionReason, the request's reason, or "No reason
\* provided" when the request has none or an empty one; with any other
\* status the vendor's rejectionReason is as before the request, present
\* or absent.
C18_RejectionReasonStored ==
    [][(req'.route = "PUT /api/admin/vendor-status" /\ Succeeded')
         => LET vendor == RequestedVendor(req')
            IN  IF req'.body["status"] = Str("rejected")
                THEN db'[vendor]["rejectionReason"] =
                        IF FieldMissing(req'.body, "rejectionReason")
                        THEN Str("No reason provided")
                        ELSE req'.body["rejectionReason"]
                ELSE /\ "rejectionReason" \in DOMAIN db'[vendor]
                            <=> "rejectionReason" \in DOMAIN db[vendor]
                     /\ "rejectionReason" \in DOMAIN db[vendor]
                            => db'[vendor]["rejectionReason"] = db[vendor]["rejectionReason"]]_vars

\* Vendor v1 was rejected without a reason and then approved by a request
\* carrying the reason "spam": v1 is approved and still holds "No reason
\* provided".
C18_Witness ==
    /\ now = 2
    /\ req.route = "PUT /api/admin/vendor-status"
    /\ Succeeded
    /\ req.body = [eventId |-> Str("e1"), vendorId |-> Str("v1"), status |-> Str("approved"),
                   rejectionReason |-> Str("spam")]
    /\ db[VendorPath("e1", "v1")]["status"] = Str("approved")
    /\ "rejectionReason" \in DOMAIN db[VendorPath("e1", "v1")]
    /\ db[VendorPath("e1", "v1")]["rejectionReason"] = Str("No reason provided")

----------------------------------------------------------------------------
(* C19 *)

\* The documents a step created, removed or changed.
Written ==
    {p \in DOMAIN db \cup DOMAIN db' :
        p \notin DOMAIN db \/ p \notin DOMAIN db' \/ db'[p] # db[p]}

\* C19: a vendor-status request on a vendor without a brand reference
\* writes no brand document, and one on a vendor referencing brand B writes
\* no brand but B; neither writes another vendor, an event, or the settings
\* document: the only documents written are the requested vendor and B.
C19_VendorStatusFrame ==
    [][req'.route = "PUT /api/admin/vendor-status"
         => IF HandlerRan' /\ ~InvalidStatusRequest(req')
                /\ RequestedVendor(req') \in DOMAIN db
            THEN LET vendor == RequestedVendor(req')
                 IN  Written \subseteq
                        {vendor} \cup
                          IF "brandId" \in DOMAIN db[vendor]
                          THEN {BrandPath(db[vendor]["brandId"].v)}
                          ELSE {}
            ELSE Written = {}]_vars

\* After vendor v1 (brand b1) was approved, vendor v2, which has no brand
\* reference, has been suspended: b1 is still active and b2 as at the start.
C19_Witness ==
    /\ now = 2
    /\ req.route = "PUT /api/admin/vendor-status"
    /\ Succeeded
    /\ Get(req.body, "vendorId") = Str("v2")
    /\ "brandId" \notin DOMAIN db[VendorPath("e1", "v2")]
    /\ db[VendorPath("e1", "v2")]["status"] = Str("suspended")
    /\ db[VendorPath("e1", "v1")]["status"] = Str("approved")
    /\ db[BrandPath("b1")]["status"] = Str("active")
    /\ db[BrandPath("b2")] = BaseDocs[BrandPath("b2")]
    /\ db[EventPath("e1")] = BaseDocs[EventPath("e1")]

----------------------------------------------------------------------------
(* C15 *)

MutatingRoutes == {"PUT /api/system-settings", "PUT /api/admin/event-status",
                   "PUT /api/admin/vendor-status"}

\* C15: in every step the audit log keeps its entries as they are and gains
\* at most one; it gains one only in a mutating request that is answered
\* {ok: true} with its primary write applied; every such request whose
\* audit append does not fault gains exactly one; and a request answered
\* 400, 401, 403, 404 or 500 gains none.
C15_OneEntryPerMutation ==
    [][/\ Len(auditLogs') \in {Len(auditLogs), Len(auditLogs) + 1}
       /\ SubSeq(auditLogs', 1, Len(auditLogs)) = auditLogs
       /\ Len(auditLogs') = Len(auditLogs) + 1
            => (req'.route \in MutatingRoutes /\ Succeeded' /\ PrimaryWriteApplied')
       /\ (req'.route \in MutatingRoutes /\ Succeeded' /\ fault' # "auditAdd")
            => Len(auditLogs') = Len(auditLogs) + 1
       /\ res'.status \in {400, 401, 403, 404, 500} => auditLogs' = auditLogs]_vars

----------------------------------------------------------------------------
(* C14 *)

\* The request of slot i has submitted its audit append, which has not
\* settled yet.
AuditPending(i) == inflight[i].pc = "auditAdd"

\* C14: the audit write is fire-and-forget: the handler submits the append
\* and sends the success response without waiting for it, so whenever a
\* request's audit append is pending, its {ok: true} response has been sent.
C14_AuditFireAndForget ==
    \A i \in Slots : AuditPending(i) => inflight[i].res = Ok

----------------------------------------------------------------------------
(* C20 *)

\* Both slots hold a finished, successful vendor-status request for the
\* same vendor, which references a brand.
BothSucceededOnOneVendor ==
    /\ \A i \in Slots :
          /\ inflight[i].pc = "done"
          /\ inflight[i].route = "PUT /api/admin/vendor-status"
          /\ inflight[i].res = Ok
    /\ RequestedVendorOf(inflight[1].body) = RequestedVendorOf(inflight[2].body)
    /\ "brandId" \in DOMAIN db[RequestedVendorOf(inflight[1].body)]

\* C20 as stated: when two vendor-status requests for the same vendor, which
\* references brand B, were in flight together and both have finished
\* successfully, B's status is the mapping of the vendor's final stored
\* status, whatever the interleaving of their steps.
C20_BrandFollowsVendor ==
    BothSucceededOnOneVendor
        => LET vendor == db[RequestedVendorOf(inflight[1].body)]
           IN  db[BrandPath(vendor["brandId"].v)]["status"]
                  = Str(MappedBrandStatus[vendor["status"].v])

\* C20 (amended): when both have finished successfully, the vendor's status
\* is the status one of the two requested and B's status is the mapping of
\* the status one of the two requested, not always the same one; B's status
\* is the mapping of the vendor's final status when both requested statuses
\* map to the same brand status.
C20_BrandFollowsOneRequest ==
    BothSucceededOnOneVendor
        => LET vendor == db[RequestedVendorOf(inflight[1].body)]
               brand == db[BrandPath(vendor["brandId"].v)]
               s1 == inflight[1].body["status"]
               s2 == inflight[2].body["status"]
           IN  /\ vendor["status"] \in {s1, s2}
               /\ brand["status"] \in {Str(MappedBrandStatus[s1.v]),
                                       Str(MappedBrandStatus[s2.v])}
               /\ MappedBrandStatus[s1.v] = MappedBrandStatus[s2.v]
                     => brand["status"] = Str(MappedBrandStatus[vendor["status"].v])

\* An approval and a suspension of vendor v1 have interleaved and both
\* succeeded: v1 is suspended and its brand b1 is active.
C20_Witness ==
    /\ BothSucceededOnOneVendor
    /\ inflight[1].body["status"] = Str("approved")
    /\ inflight[2].body["status"] = Str("suspended")
    /\ db[VendorPath("e1", "v1")]["status"] = Str("suspended")
    /\ db[BrandPath("b1")]["status"] = Str("active")

TypeOK ==
    /\ res.status \in {0, 200, 400, 401, 403, 404, 500}

====
